---- MODULE Spec2Model ----
(***************************************************************************)
(* Model of pkg/plugins/scheduler.go: the CustomScheduler plugin.          *)
(*                                                                         *)
(*   New             builds the plugin from an optional configuration      *)
(*   PreFilter       the group-quorum admission gate                       *)
(*   Score           raw node score from allocatable memory                *)
(*   NormalizeScore  min-max rescaling of one batch of raw scores          *)
(*                                                                         *)
(* Label values are Go strings and are modelled as sequences of one-       *)
(* character strings, so that strconv.Atoi and the %d verb are computed    *)
(* character by character.  Every integer of the model stays far below     *)
(* 2^31, so the int64 arithmetic of the code is exact on these values.     *)
(***************************************************************************)
EXTENDS Integers, Sequences, FiniteSets

VARIABLES
    created,      \* "start" before New, then "ok" (instance returned) or "failed"
    obj,          \* the configuration object New was called with
    scoreMode,    \* cs.scoreMode
    pod,          \* the pod of the last PreFilter call
    listed,       \* what the pod lister returned to that call
    status,       \* the outcome of that call
    phase,        \* position in the scheduling cycle
    allocatable,  \* allocatable memory read from the snapshot, per scored node
    scores,       \* the NodeScoreList of the cycle
    rawScores,    \* the NodeScoreList as it was handed to NormalizeScore
    scoreCall,    \* the outcome of the last Score call
    normCall      \* the outcome of the last NormalizeScore call

vars == <<created, obj, scoreMode, pod, listed, status, phase, allocatable,
          scores, rawScores, scoreCall, normCall>>

-----------------------------------------------------------------------------
(* Bounds of the model.                                                    *)

MaxMembers == 2     \* the lister returns at most this many pods
MaxNodes == 3       \* candidate nodes per scheduling cycle

-----------------------------------------------------------------------------
(* Constants of the program.                                               *)

groupNameLabel == "podGroup"
minAvailableLabel == "minAvailable"
leastMode == "Least"
mostMode == "Most"

Success == "Success"
Error == "Error"
Unschedulable == "Unschedulable"

InitMinScore == 1000000
InitMaxScore == -1000000

None == "none"       \* no call made yet

-----------------------------------------------------------------------------
(* Go helpers.                                                             *)

Digits == <<"0", "1", "2", "3", "4", "5", "6", "7", "8", "9">>

IsDigit(ch) == \E d \in 1..10 : Digits[d] = ch

DigitVal(ch) == (CHOOSE d \in 1..10 : Digits[d] = ch) - 1

RECURSIVE DigitsValue(_, _)
\* the loop n = n*10 + ch of strconv.Atoi over an all-digit string
DigitsValue(s, n) ==
    IF s = <<>> THEN n
    ELSE DigitsValue(Tail(s), n * 10 + DigitVal(Head(s)))

\* strconv.Atoi on a string shorter than 19 characters: an optional sign,
\* then one or more decimal digits; anything else is a syntax error.
Atoi(s) ==
    IF s = <<>> THEN [ok |-> FALSE, val |-> 0]
    ELSE LET signed == Head(s) \in {"-", "+"}
             body == IF signed THEN Tail(s) ELSE s
         IN  IF body = <<>> \/ \E i \in 1..Len(body) : ~IsDigit(body[i])
             THEN [ok |-> FALSE, val |-> 0]
             ELSE LET n == DigitsValue(body, 0)
                  IN  [ok |-> TRUE, val |-> IF Head(s) = "-" THEN -n ELSE n]

RECURSIVE UDigits(_)
UDigits(n) ==
    IF n < 10 THEN <<Digits[n + 1]>>
    ELSE Append(UDigits(n \div 10), Digits[(n % 10) + 1])

\* the %d verb of fmt.Sprintf
Itoa(n) == IF n < 0 THEN <<"-">> \o UDigits(-n) ELSE UDigits(n)

\* Go's integer division, which truncates toward zero
Quot(a, b) ==
    LET abs(x) == IF x < 0 THEN -x ELSE x
        q == abs(a) \div abs(b)
    IN  IF (a < 0) = (b < 0) THEN q ELSE -q

\* pod.ObjectMeta.Labels[key]: a missing key reads as the empty string
LabelValue(labels, key) == IF key \in DOMAIN labels THEN labels[key] ELSE <<>>

-----------------------------------------------------------------------------
(* New.                                                                    *)

\* A configuration object is nil (present = FALSE) or carries a raw JSON
\* document: a syntax error (valid = FALSE) or a list of members
\* <<key, kind, value>>.
NilObj == [present |-> FALSE, valid |-> TRUE, members |-> <<>>]

\* json.Unmarshal(args.Raw, &csArgs) on a well-formed document: a member
\* named mode (in any case) sets Mode when it is a string and is a type
\* error otherwise, after which decoding goes on.
RECURSIVE Unmarshal(_, _)
Unmarshal(members, acc) ==
    IF members = <<>> THEN acc
    ELSE LET m == Head(members)
         IN  IF m[1] \notin {"mode", "Mode", "MODE"}
             THEN Unmarshal(Tail(members), acc)
             ELSE IF m[2] = "string"
                  THEN Unmarshal(Tail(members), [acc EXCEPT !.Mode = m[3]])
                  ELSE Unmarshal(Tail(members), [acc EXCEPT !.err = TRUE])

\* csArgs after the Unmarshal call; a syntax error decodes nothing
Decode(o) ==
    IF ~o.valid THEN [Mode |-> "", err |-> TRUE]
    ELSE Unmarshal(o.members, [Mode |-> "", err |-> FALSE])

NewNoCheck(o) ==
    IF ~o.present THEN [ok |-> TRUE, scoreMode |-> leastMode]
    ELSE [ok |-> TRUE, scoreMode |-> Decode(o).Mode]

New(o) ==
    IF ~o.present THEN [ok |-> TRUE, scoreMode |-> leastMode]
    ELSE LET mode == Decode(o).Mode
         IN  IF mode # leastMode /\ mode # mostMode
             THEN [ok |-> FALSE, scoreMode |-> ""]
             ELSE [ok |-> TRUE, scoreMode |-> mode]

-----------------------------------------------------------------------------
(* PreFilter.                                                              *)

GroupLabelMissingWrongKey(labels) == minAvailableLabel \notin DOMAIN labels

\* !exists
GroupLabelMissing(labels) == groupNameLabel \notin DOMAIN labels

ParseFailedIgnored(parsed) == FALSE

\* err != nil after strconv.Atoi
ParseFailed(parsed) == ~parsed.ok

QuorumShortOrEqual(n, minAvailable) == n <= minAvailable

\* len(pods) < minAvailable
QuorumShort(n, minAvailable) == n < minAvailable

NotEnoughReasonNoGroup(groupLabel, minAvailable) ==
    <<"Not enough pods in group ", <<>>,
      ", minimum required is ", Itoa(minAvailable)>>

\* fmt.Sprintf("Not enough pods in group %s, minimum required is %d", ...)
NotEnoughReason(groupLabel, minAvailable) ==
    <<"Not enough pods in group ", groupLabel,
      ", minimum required is ", Itoa(minAvailable)>>

\* list is what the pod lister returns: an error, or n pods
PreFilter(p, list) ==
    IF GroupLabelMissing(p.Labels)
    THEN [code |-> Error,
          reason |-> <<"group label not found on pod ", p.Name>>,
          queried |-> FALSE]
    ELSE LET groupLabel == LabelValue(p.Labels, groupNameLabel)
             parsed == Atoi(LabelValue(p.Labels, minAvailableLabel))
             minAvailable == parsed.val
         IN  IF list.err
             THEN [code |-> Error,
                   reason |-> <<"error listing pods with selector ", groupLabel>>,
                   queried |-> TRUE]
             ELSE IF ParseFailed(parsed)
             THEN [code |-> Error,
                   reason |-> <<"group minAvail not found on pod ", p.Name>>,
                   queried |-> TRUE]
             ELSE IF QuorumShort(list.n, minAvailable)
             THEN [code |-> Unschedulable,
                   reason |-> NotEnoughReason(groupLabel, minAvailable),
                   queried |-> TRUE]
             ELSE [code |-> Success, reason |-> <<>>, queried |-> TRUE]

-----------------------------------------------------------------------------
(* Score.                                                                  *)

ScoreSwapped(mode, info) ==
    IF ~info.found
    THEN [code |-> Error, score |-> 0, branch |-> "notfound"]
    ELSE IF mode = leastMode
    THEN [code |-> Success, score |-> info.Memory, branch |-> "least"]
    ELSE IF mode = mostMode
    THEN [code |-> Success, score |-> -info.Memory, branch |-> "most"]
    ELSE [code |-> Success, score |-> 0, branch |-> "fallback"]

\* info is what the snapshot returns for the node: not found, or the node's
\* allocatable memory; a nil status is a success
Score(mode, info) ==
    IF ~info.found
    THEN [code |-> Error, score |-> 0, branch |-> "notfound"]
    ELSE IF mode = leastMode
    THEN [code |-> Success, score |-> -info.Memory, branch |-> "least"]
    ELSE IF mode = mostMode
    THEN [code |-> Success, score |-> info.Memory, branch |-> "most"]
    ELSE [code |-> Success, score |-> 0, branch |-> "fallback"]

-----------------------------------------------------------------------------
(* NormalizeScore.                                                         *)

RECURSIVE Scan(_, _)
\* the loop over scores that updates maxScore and minScore
Scan(list, acc) ==
    IF list = <<>> THEN acc
    ELSE LET score == Head(list).Score
             maxScore == IF score > acc.maxScore THEN score ELSE acc.maxScore
             minScore == IF score < acc.minScore THEN score ELSE acc.minScore
         IN  Scan(Tail(list), [minScore |-> minScore, maxScore |-> maxScore])

RescaleInverted(raw, minScore, maxScore) ==
    Quot((maxScore - raw) * 100, maxScore - minScore)

\* ((scores[i].Score - minScore) * 100) / (maxScore - minScore)
Rescale(raw, minScore, maxScore) ==
    Quot((raw - minScore) * 100, maxScore - minScore)

\* divisions counts the divisions the call performed
NormalizeScore(list) ==
    LET range == Scan(list, [minScore |-> InitMinScore, maxScore |-> InitMaxScore])
    IN  IF range.minScore = range.maxScore
        THEN [scores |-> list, code |-> Success, divisions |-> 0]
        ELSE [scores |-> [i \in 1..Len(list) |->
                             [list[i] EXCEPT !.Score =
                                 Rescale(list[i].Score, range.minScore, range.maxScore)]],
              code |-> Success,
              divisions |-> Len(list)]

-----------------------------------------------------------------------------
(* Inputs.                                                                 *)

Member(key, kind, value) == <<key, kind, value>>

ConfigObjs ==
    {NilObj, [present |-> TRUE, valid |-> FALSE, members |-> <<>>]}
    \cup {[present |-> TRUE, valid |-> TRUE, members |-> ms] : ms \in
            {<<>>,
             <<Member("mode", "number", "5")>>,
             <<Member("other", "string", "Least")>>,
             <<Member("MODE", "string", "Most")>>,
             <<Member("mode", "string", "Least"), Member("mode", "number", "5")>>}
            \cup {<<Member("mode", "string", s)>> :
                    s \in {"Least", "Most", "least", "", "Balanced"}}}

GroupValues == {<<"g", "1">>, <<"g", "2">>}

MinValues ==
    {<<>>, <<"0">>, <<"3">>, <<"+", "2">>, <<"-", "1">>, <<"a", "b">>,
     <<"3", "x">>}

LabelSets ==
    {[k \in {} |-> <<>>]}
    \cup {[k \in {groupNameLabel} |-> g] : g \in GroupValues}
    \cup {[k \in {minAvailableLabel} |-> m] : m \in MinValues}
    \cup {[k \in {groupNameLabel, minAvailableLabel} |->
             IF k = groupNameLabel THEN gm[1] ELSE gm[2]] :
            gm \in GroupValues \X MinValues}

Pods == {[Name |-> "pod-0", Labels |-> l] : l \in LabelSets}

ListResults ==
    {[err |-> TRUE, n |-> 0]} \cup {[err |-> FALSE, n |-> n] : n \in 0..MaxMembers}

MemoryValues == {0, 50, 200, 2000000, 3000000}

NodeInfos ==
    {[found |-> FALSE, Memory |-> 0]}
    \cup {[found |-> TRUE, Memory |-> m] : m \in MemoryValues}

-----------------------------------------------------------------------------
(* The state machine: the host builds the plugin once, then runs scheduling *)
(* cycles: PreFilter, then Score once per candidate node, then             *)
(* NormalizeScore on the batch.                                            *)

NoStatus == [code |-> None, reason |-> <<>>, queried |-> FALSE]
NoPod == [Name |-> "", Labels |-> [k \in {} |-> <<>>]]
NoList == [err |-> FALSE, n |-> 0]
NoScoreCall == [code |-> None, score |-> 0, branch |-> None,
                info |-> [found |-> FALSE, Memory |-> 0]]
NoNormCall == [code |-> None, divisions |-> 0]

Init ==
    /\ created = "start"
    /\ obj = NilObj
    /\ scoreMode = ""
    /\ pod = NoPod
    /\ listed = NoList
    /\ status = NoStatus
    /\ phase = "idle"
    /\ allocatable = <<>>
    /\ scores = <<>>
    /\ rawScores = <<>>
    /\ scoreCall = NoScoreCall
    /\ normCall = NoNormCall

DoNew(o) ==
    /\ created = "start"
    /\ LET r == New(o)
       IN  /\ created' = IF r.ok THEN "ok" ELSE "failed"
           /\ scoreMode' = r.scoreMode
    /\ obj' = o
    /\ UNCHANGED <<pod, listed, status, phase, allocatable, scores, rawScores,
                   scoreCall, normCall>>

DoPreFilter(p, list) ==
    /\ created = "ok"
    /\ phase \in {"idle", "normalized"}
    /\ LET r == PreFilter(p, list)
       IN  /\ status' = r
           /\ phase' = IF r.code = Success THEN "score" ELSE "idle"
    /\ pod' = p
    /\ listed' = list
    /\ allocatable' = <<>>
    /\ scores' = <<>>
    /\ rawScores' = <<>>
    /\ scoreCall' = NoScoreCall
    /\ normCall' = NoNormCall
    /\ UNCHANGED <<created, obj, scoreMode>>

\* the node scored is the next one of the candidate list; a failed Score
\* ends the cycle
DoScore(info) ==
    /\ phase = "score"
    /\ Len(scores) < MaxNodes
    /\ LET r == Score(scoreMode, info)
       IN  /\ scoreCall' = [code |-> r.code, score |-> r.score,
                            branch |-> r.branch, info |-> info]
           /\ IF r.code = Success
              THEN /\ scores' = Append(scores, [Name |-> Len(scores) + 1,
                                                Score |-> r.score])
                   /\ allocatable' = Append(allocatable, info.Memory)
                   /\ phase' = phase
              ELSE /\ scores' = <<>>
                   /\ allocatable' = <<>>
                   /\ phase' = "idle"
    /\ UNCHANGED <<created, obj, scoreMode, pod, listed, status, rawScores,
                   normCall>>

DoNormalizeScore ==
    /\ phase = "score"
    /\ LET r == NormalizeScore(scores)
       IN  /\ scores' = r.scores
           /\ normCall' = [code |-> r.code, divisions |-> r.divisions]
    /\ rawScores' = scores
    /\ phase' = "normalized"
    /\ UNCHANGED <<created, obj, scoreMode, pod, listed, status, allocatable,
                   scoreCall>>

Next ==
    \/ \E o \in ConfigObjs : DoNew(o)
    \/ \E p \in Pods, list \in ListResults : DoPreFilter(p, list)
    \/ \E info \in NodeInfos : DoScore(info)
    \/ DoNormalizeScore

Spec == Init /\ [][Next]_vars

-----------------------------------------------------------------------------
(* Vocabulary of the properties.                                           *)

PreFilterCalled == status.code # None
HasGroup == groupNameLabel \in DOMAIN pod.Labels
HasMinAvailable == minAvailableLabel \in DOMAIN pod.Labels
MinAvailableText == LabelValue(pod.Labels, minAvailableLabel)
\* the integer the minimum-available label parses to, when it parses
MinAvailableInt == Atoi(MinAvailableText)
Normalized == phase = "normalized"
Batch == 1..Len(rawScores)
AllEqual == \A i, j \in Batch : rawScores[i].Score = rawScores[j].Score
\* the actual smallest and largest raw score of a non-empty batch
TrueMin == CHOOSE m \in {rawScores[i].Score : i \in Batch} :
               \A i \in Batch : m <= rawScores[i].Score
TrueMax == CHOOSE m \in {rawScores[i].Score : i \in Batch} :
               \A i \in Batch : m >= rawScores[i].Score

-----------------------------------------------------------------------------
(* C1: a pod with a group identifier and a minimum-available label that    *)
(* parses to an integer n >= 0 is admitted (Success) when the lister       *)
(* returned at least n pods and is Unschedulable when it returned fewer;   *)
(* the outcome is never Error.                                             *)
C1_QuorumDecision ==
    (/\ PreFilterCalled
     /\ HasGroup
     /\ ~listed.err
     /\ MinAvailableInt.ok
     /\ MinAvailableInt.val >= 0)
    => /\ listed.n >= MinAvailableInt.val => status.code = Success
       /\ listed.n < MinAvailableInt.val => status.code = Unschedulable
       /\ status.code # Error

\* group g1, minimum 3, 2 members: rejected
C1_Witness ==
    /\ HasGroup
    /\ MinAvailableText = <<"3">>
    /\ ~listed.err
    /\ listed.n = 2
    /\ status.code = Unschedulable

C4_MinMaxRescale ==
    (Normalized /\ Batch # {} /\ ~AllEqual)
    => \A i \in Batch :
          /\ scores[i].Score =
                Quot((rawScores[i].Score - TrueMin) * 100, TrueMax - TrueMin)
          /\ rawScores[i].Score = TrueMin => scores[i].Score = 0
          /\ rawScores[i].Score = TrueMax => scores[i].Score = 100

(* C5: after NormalizeScore every score of the batch lies in 0..100.       *)
C5_ScoresInRange ==
    Normalized => \A i \in 1..Len(scores) : scores[i].Score \in 0..100

(* C6: when all raw scores of a batch are equal, NormalizeScore divides    *)
(* nothing, returns Success and leaves every score unchanged.              *)
C6_TieUnchanged ==
    (Normalized /\ AllEqual)
    => /\ normCall.divisions = 0
       /\ normCall.code = Success
       /\ scores = rawScores

(* C7: for a node found in the snapshot with allocatable memory m >= 0,    *)
(* Score returns -m in mode Least and m in mode Most, with no error.       *)
C7_RawScore ==
    (scoreCall.code # None /\ scoreCall.info.found /\ scoreCall.info.Memory >= 0)
    => /\ scoreCall.code = Success
       /\ scoreMode = leastMode => scoreCall.score = -scoreCall.info.Memory
       /\ scoreMode = mostMode => scoreCall.score = scoreCall.info.Memory

\* a node with 200 of memory scored in each mode is reached
C7_Witness ==
    /\ scoreCall.code = Success
    /\ scoreCall.info.Memory = 200
    /\ scoreMode = leastMode
    /\ scoreCall.score = -200

(* C8, as stated: in mode Most, after Score and NormalizeScore a node with *)
(* more allocatable memory than another has a higher normalized score.     *)
C8_StrictlyHigher ==
    (Normalized /\ scoreMode = mostMode)
    => \A i, j \in 1..Len(scores) :
          allocatable[i] > allocatable[j] => scores[i].Score > scores[j].Score

(* C8, amended: in mode Most, after Score and NormalizeScore a node with   *)
(* more allocatable memory than another has a normalized score that is     *)
(* not lower; the truncating division can make the two equal.              *)
C8_NotLower ==
    (Normalized /\ scoreMode = mostMode)
    => \A i, j \in 1..Len(scores) :
          allocatable[i] > allocatable[j] => scores[i].Score >= scores[j].Score

\* two nodes of different memory that the division maps to the same score,
\* next to a pair it keeps apart
C8_Witness ==
    /\ Normalized
    /\ scoreMode = mostMode
    /\ \E i, j \in 1..Len(scores) :
          /\ allocatable[i] > allocatable[j]
          /\ scores[i].Score = scores[j].Score
    /\ \E i, j \in 1..Len(scores) :
          /\ allocatable[i] > allocatable[j]
          /\ scores[i].Score > scores[j].Score

(* C9, as stated: the reason of an Unschedulable outcome names the pod's   *)
(* group and the shortfall, minimum-available minus the members observed.  *)
C9_ReasonHasShortfall ==
    status.code = Unschedulable
    => /\ status.reason[2] = pod.Labels[groupNameLabel]
       /\ Atoi(status.reason[4]).val = MinAvailableInt.val - listed.n

(* C9, amended: the reason of an Unschedulable outcome names the pod's     *)
(* group and the minimum-available count itself, not the shortfall.        *)
C9_ReasonHasMinimum ==
    status.code = Unschedulable
    => /\ status.reason[2] = pod.Labels[groupNameLabel]
       /\ Atoi(status.reason[4]).ok
       /\ Atoi(status.reason[4]).val = MinAvailableInt.val

\* group g1, minimum 3, 2 members: the reason reads g1 and 3
C9_Witness ==
    /\ status.code = Unschedulable
    /\ pod.Labels[groupNameLabel] = <<"g", "1">>
    /\ MinAvailableText = <<"3">>
    /\ listed.n = 2
    /\ status.reason[4] = <<"3">>

(* C10: New fails on a supplied configuration whose decoded mode is not    *)
(* Least or Most; every instance has scoreMode Least or Most; no call      *)
(* changes scoreMode; Score never takes its fallback branch.               *)
C10_ModeFixed ==
    /\ [](/\ (created # "start" /\ obj.present
                 /\ Decode(obj).Mode \notin {leastMode, mostMode})
             => created = "failed"
          /\ created = "ok" => scoreMode \in {leastMode, mostMode}
          /\ scoreCall.branch # "fallback")
    /\ [][created = "ok" => scoreMode' = scoreMode]_vars

\* an instance built from a supplied configuration has scored and normalized
C10_Witness ==
    /\ created = "ok"
    /\ obj.present
    /\ scoreMode = mostMode
    /\ Normalized
    /\ Len(scores) = 2

====
